---- MODULE Spec2Model ----
(***************************************************************************)
(* The Applied Jobs collector of new-extension/content.js as a state       *)
(* machine: one content script (class AppliedJobsCollector) living in a    *)
(* tab, chrome.storage.local, the page it reads, and the commands the      *)
(* popup sends to it.  Every call of startCollection that passes the       *)
(* "already in progress" guard is an async task; a task advances from one  *)
(* await to the next in one step, because JavaScript runs the code between *)
(* two awaits without interruption.  The collaborator calls (storage       *)
(* writes, the harvest of the document, sendMessage) fail only in the      *)
(* specifications that say so; the functions of the harvest are also       *)
(* applied on their own, to inputs drawn from bounded sets.                *)
(***************************************************************************)
EXTENDS Integers, Sequences, FiniteSets, TLC

\* this.maxPages, the safety ceiling (50 in the code, scaled down here).
maxPages == 2

\* How many startCollection calls may be in flight at once in the model.
MaxTasks == 2

Tasks == 1..MaxTasks

\* The job ids and the longest sequence in the inputs of the functions that
\* are applied on their own.
MaxJob == 3
MaxLen == 3

\* The longest listing has more pages than the ceiling allows.
MaxListing == maxPages + 1

VARIABLES
  isCollecting,     \* this.isCollecting
  shouldStop,       \* this.shouldStop
  currentPage,      \* this.currentPage
  collectedLinks,   \* this.collectedLinks: a JS Set, kept in insertion order
  loadPending,      \* loadExistingData() awaits chrome.storage.local.get
  loadResult,       \* result.collectedLinks of that get
  totalPages,       \* this.totalPages
  task,             \* the startCollection calls: position and locals
  stLinks,          \* chrome.storage.local: collectedLinks
  stIsCollecting,   \* chrome.storage.local: isCollecting
  domPage,          \* the listing page the document shows
  numPages,         \* how many pages the listing has
  lastNext,         \* the next button on the last page: "none" or "disabled"
  appliedPage,      \* window.location.href is the Applied Jobs page
  peerLinks,        \* collectedLinks of a collector in another tab
  layout,           \* how the listing spreads the jobs over its pages
  totalEstimate,    \* what getTotalJobsCount() reads off the document
  popup,            \* the PopupManager: this.isCollecting, the await it is at
  popupBuild,       \* which popup is installed: "new" or "old"
  faults,           \* the collaborator calls that may fail in this run
  arg,              \* the input of a function applied on its own
  res               \* and its result

vars == <<isCollecting, shouldStop, currentPage, collectedLinks, loadPending,
          loadResult, totalPages, task, stLinks, stIsCollecting, domPage,
          numPages, lastNext, appliedPage, peerLinks, layout, totalEstimate,
          popup, popupBuild, faults, arg, res>>

collectorVars == <<isCollecting, shouldStop, currentPage, collectedLinks,
                   loadPending, loadResult, totalPages, task>>
siteVars == <<numPages, lastNext, layout, totalEstimate, popupBuild>>

\* Everything but the popup.
scriptVars == <<collectorVars, stLinks, stIsCollecting, domPage, siteVars,
                appliedPage, peerLinks, faults, arg, res>>

----------------------------------------------------------------------------
(* Links.  An href is the sequence of the pieces it is made of:            *)
(* "/jobs/view/", a run of digits, "/", a query string with a tracking      *)
(* value, and any other text.                                               *)

View == [tok |-> "/jobs/view/"]
Digits(n) == [tok |-> "digits", n |-> n]
Slash == [tok |-> "/"]
Query(q) == [tok |-> "?trk=", q |-> q]
Other == [tok |-> "other"]

\* The href of a job posting (v) or of something else, with the number i
\* after it (0: none) and the tracking value q (0: no query string).
Href(v, i, q) ==
  (IF v THEN <<View>> ELSE <<Other>>)
    \o (IF i > 0 THEN <<Digits(i), Slash>> ELSE <<>>)
    \o (IF q > 0 THEN <<Query(q)>> ELSE <<>>)

\* A template that lets a tracking value through.
cleanUrlWithQuery(jobId) == Href(TRUE, jobId, 1)

\* `https://www.linkedin.com/jobs/view/${jobId}/`
cleanUrl(jobId) == Href(TRUE, jobId, 0)

\* href.includes('jobs/view/')
includesView(href) == \E i \in 1..Len(href) : href[i] = View

\* The places where /\/jobs\/view\/(\d+)\// matches.
matchesAt(link) ==
  {i \in 1..Len(link) - 2 :
     link[i] = View /\ link[i + 1].tok = "digits" /\ link[i + 2] = Slash}

\* link.match(/\/jobs\/view\/(\d+)\//): the job id of the leftmost match,
\* 0 when there is no match
jobIdOf(link) ==
  IF matchesAt(link) = {} THEN 0
  ELSE link[(CHOOSE i \in matchesAt(link) :
               \A j \in matchesAt(link) : i <= j) + 1].n

\* An anchor of the document: its href and whether its trk attribute
\* contains "flagship3_job_home_appliedjobs".
Anchor(h, trk) == [href |-> h, trk |-> trk]

\* The anchors of listing page p, newest job first, and a navigation link
\* that is no job posting.  In the "overlap" layout: job p + 1 twice (two
\* tracking strings) and job p once (it is also the first job of the page
\* before); in the "single" layout, job p alone.  A listing of no pages
\* (nothing applied to yet) shows the navigation link alone.
PageAnchors(p) ==
  IF p > numPages THEN << Anchor(Href(FALSE, 0, 0), FALSE) >>
  ELSE IF layout = "single"
  THEN << Anchor(Href(TRUE, p, 1), TRUE),
          Anchor(Href(FALSE, 0, 0), FALSE) >>
  ELSE
  << Anchor(Href(TRUE, p + 1, 1), TRUE),
     Anchor(Href(TRUE, p + 1, 2), TRUE),
     Anchor(Href(TRUE, p, 1), TRUE),
     Anchor(Href(FALSE, 0, 0), FALSE) >>

\* The hrefs one selector yields: querySelectorAll(selector), map to href,
\* filter href.includes('jobs/view/').
selectorHrefs(anchors, k) ==
  LET Matches(a) == CASE k = 1 -> includesView(a.href) /\ a.trk
                      [] k = 2 -> includesView(a.href)
                      [] OTHER -> a.trk
      IsView(a) == includesView(a.href)
      links == SelectSeq(anchors, Matches)
      kept == SelectSeq(links, IsView)
  IN [i \in 1..Len(kept) |-> kept[i].href]

\* All the selectors merged: what the fallback chain is not.
allSelectorHrefs(anchors) ==
  selectorHrefs(anchors, 1) \o selectorHrefs(anchors, 2)
    \o selectorHrefs(anchors, 3)

\* The first selector that finds links is used alone.
firstSelectorHrefs(anchors) ==
  IF Len(selectorHrefs(anchors, 1)) > 0 THEN selectorHrefs(anchors, 1)
  ELSE IF Len(selectorHrefs(anchors, 2)) > 0 THEN selectorHrefs(anchors, 2)
  ELSE selectorHrefs(anchors, 3)

RECURSIVE cleanLinksNoSeen(_, _, _)
\* The loop over allLinks without the seenJobIds test.
cleanLinksNoSeen(allLinks, seenJobIds, acc) ==
  IF allLinks = <<>> THEN acc
  ELSE LET jobId == jobIdOf(Head(allLinks))
       IN IF jobId # 0
          THEN cleanLinksNoSeen(Tail(allLinks), seenJobIds \cup {jobId},
                                Append(acc, cleanUrl(jobId)))
          ELSE cleanLinksNoSeen(Tail(allLinks), seenJobIds, acc)

RECURSIVE cleanLinks(_, _, _)
\* The loop over allLinks: one clean URL per job id not seen before.
cleanLinks(allLinks, seenJobIds, acc) ==
  IF allLinks = <<>> THEN acc
  ELSE LET jobId == jobIdOf(Head(allLinks))
       IN IF jobId # 0 /\ jobId \notin seenJobIds
          THEN cleanLinks(Tail(allLinks), seenJobIds \cup {jobId},
                          Append(acc, cleanUrl(jobId)))
          ELSE cleanLinks(Tail(allLinks), seenJobIds, acc)

extractJobLinksFromPage(anchors) ==
  cleanLinks(firstSelectorHrefs(anchors), {}, <<>>)

Range(s) == {s[i] : i \in 1..Len(s)}

\* The merge without the has() test.
mergeLinksAlways(links, pageLinks) == links \o pageLinks

RECURSIVE mergeLinks(_, _)
\* for (const link of pageLinks) if (!has(link)) add(link)
mergeLinks(links, pageLinks) ==
  IF pageLinks = <<>> THEN links
  ELSE mergeLinks(IF Head(pageLinks) \in Range(links) THEN links
                  ELSE Append(links, Head(pageLinks)),
                  Tail(pageLinks))

\* newLinksCount after that loop
countNew(links, pageLinks) == Len(mergeLinks(links, pageLinks)) - Len(links)

----------------------------------------------------------------------------
(* The pagination controls of the document, as the selectors see them.      *)
(* nextBtn: "none", "enabled", "disabled" (element.disabled) or "hidden"    *)
(* (offsetParent === null).                                                 *)

SetMax(S) == CHOOSE m \in S : \A n \in S : n <= m

\* What the document shows on listing page p: a next button that works on
\* every page but the last, and a numbered button for every page; no
\* pagination at all under a listing of no pages.
Dom(p) ==
  IF numPages = 0
  THEN [nextBtn |-> "none", container |-> FALSE, current |-> 1,
        pageNumbers |-> {}]
  ELSE
  [ nextBtn     |-> IF p < numPages THEN "enabled" ELSE lastNext,
    container   |-> TRUE,
    current     |-> p,
    pageNumbers |-> 1..numPages ]

\* element && element.offsetParent !== null && !element.disabled
nextClickable(dom) == dom.nextBtn = "enabled"

getPaginationInfo(dom) ==
  IF ~dom.container
  THEN [hasNext |-> FALSE, currentPage |-> 1, totalPages |-> 1,
        availablePages |-> {}]
  ELSE [hasNext |-> (dom.nextBtn # "none")
                      \/ (\E n \in dom.pageNumbers : n > dom.current),
        currentPage |-> dom.current,
        totalPages |-> SetMax(dom.pageNumbers \cup {dom.current}),
        availablePages |-> dom.pageNumbers]

checkForMoreJobs(dom) ==
  IF nextClickable(dom) THEN TRUE ELSE getPaginationInfo(dom).hasNext

\* this.totalPages after checkForMoreJobs: assigned unless the next button
\* answered the question.
totalPagesChecked(dom) ==
  IF nextClickable(dom) THEN totalPages
  ELSE getPaginationInfo(dom).totalPages

\* The page loadMoreJobs clicks its way to; 0 when it finds nothing to click.
loadMoreTarget(dom) ==
  IF nextClickable(dom) THEN dom.current + 1
  ELSE IF getPaginationInfo(dom).currentPage + 1
            \in getPaginationInfo(dom).availablePages
       THEN getPaginationInfo(dom).currentPage + 1
       ELSE 0

----------------------------------------------------------------------------
(* State.  Init is the state after the extension was installed (the storage *)
(* as the onInstalled listener leaves it) and the page was opened.          *)

\* A startCollection call.  pc is the await it is suspended at; newLinksCount
\* and pageLen are the locals of the last cycle that harvested; cycles counts
\* the cycles begun (capped above the ceiling); writeOk is the outcome of
\* the storage write the call awaits.  The other fields record history:
\* stopped: a stop arrived while the call was inside the loop; exit: why the
\* loop was left; sent: the terminal notifications sent; resumed: the call
\* began as the resumption of a run (see Resumption); touched: another
\* writer has changed the stored links since it began; failed: a harvest of
\* it raised an exception; staleStop: the call began while no call was
\* running and this.shouldStop was still set by a stop that no start had
\* followed, and no stop has arrived since it began.
IdleTask ==
  [ pc |-> "idle", newLinksCount |-> 0, pageLen |-> 0, cycles |-> 0,
    stopped |-> FALSE, exit |-> "none", sent |-> {}, resumed |-> FALSE,
    touched |-> FALSE, writeOk |-> TRUE, failed |-> FALSE,
    staleStop |-> FALSE ]

Running(t) == task[t].pc \in {"setFlag", "wait", "save", "advWait", "navWait"}

\* The call is inside the while loop of collectAllJobLinks.
InLoop(t) == task[t].pc \in {"wait", "save", "advWait", "navWait"}

\* The jobs of pages 1..k of the listing.
JobsUpTo(k) ==
  UNION {Range(extractJobLinksFromPage(PageAnchors(p))) : p \in 1..k}

\* A count on the page that is right, and one that is far too high.
listedJobs == Cardinality(JobsUpTo(numPages))
OverEstimate == 2 * (MaxListing + 1)

\* `new PopupManager()` and its updateStatus(): the popup takes the stored
\* isCollecting flag for its own.
PopupManager(stored) == [isCollecting |-> stored, pc |-> "idle"]

\* The listings the page may show: nothing applied to yet; as many pages as
\* the ceiling allows, the last without a next button; one page more, the
\* last with a disabled next button.
Sites ==
  { [numPages |-> 0, lastNext |-> "none"],
    [numPages |-> maxPages, lastNext |-> "none"],
    [numPages |-> MaxListing, lastNext |-> "disabled"] }

\* No function is applied on its own.
NoArg == [kind |-> "none"]

\* The collector after construction, the storage after installation, the
\* popup, and the page, which shows one of these listings.
ConstructedOn(sites) ==
  /\ isCollecting = FALSE
  /\ shouldStop = FALSE
  /\ currentPage = 0
  /\ collectedLinks = <<>>
  /\ loadPending = TRUE
  /\ stLinks = <<>>
  /\ loadResult = stLinks
  /\ totalPages = 0
  /\ task = [t \in Tasks |-> IdleTask]
  /\ stIsCollecting = FALSE
  /\ popup = PopupManager(stIsCollecting)
  /\ \E site \in sites : numPages = site.numPages /\ lastNext = site.lastNext
  /\ domPage = 1
  /\ appliedPage \in BOOLEAN
  /\ peerLinks = <<>>

Constructed == ConstructedOn(Sites)

\* What may fail: a write to chrome.storage.local, the harvest of the page,
\* chrome.runtime.sendMessage.
FaultKinds == {"storage", "harvest", "notify"}

Layouts == {"overlap", "single"}

\* No collaborator fails, and the pages of the listing overlap.
Init ==
  /\ Constructed
  /\ layout = "overlap"
  /\ totalEstimate = listedJobs
  /\ popupBuild = "new"
  /\ faults = {}
  /\ arg = NoArg
  /\ res = NoArg

\* Any of the collaborators may fail.
InitFaults ==
  /\ Constructed
  /\ layout = "overlap"
  /\ totalEstimate = listedJobs
  /\ popupBuild = "new"
  /\ faults \in SUBSET FaultKinds
  /\ arg = NoArg
  /\ res = NoArg

\* The popup of extension/ and the older one of unnamed/part_000.
PopupBuilds == {"new", "old"}

\* A listing of two pages, which is all a run under the popup's commands
\* needs, and either popup.
InitPopup ==
  /\ ConstructedOn({[numPages |-> 2, lastNext |-> "none"]})
  /\ layout = "overlap"
  /\ totalEstimate = listedJobs
  /\ popupBuild \in PopupBuilds
  /\ faults = {}
  /\ arg = NoArg
  /\ res = NoArg

\* Either layout of the listing, and a count on the page that is missing,
\* right or far too high.
InitLayouts ==
  /\ Constructed
  /\ layout \in Layouts
  /\ totalEstimate \in {0, listedJobs, OverEstimate}
  /\ popupBuild = "new"
  /\ faults = {}
  /\ arg = NoArg
  /\ res = NoArg

----------------------------------------------------------------------------
(* loadExistingData: the get was issued by the constructor; this is its     *)
(* continuation.  The stored value is an array ([] after installation),     *)
(* which is truthy, so the Set is always replaced.                          *)

LoadComplete ==
  /\ loadPending
  /\ loadPending' = FALSE
  /\ collectedLinks' = loadResult
  /\ UNCHANGED <<isCollecting, shouldStop, currentPage, loadResult, totalPages, task,
                 stLinks, stIsCollecting, domPage, siteVars, faults, popup, arg, res,
                 appliedPage, peerLinks>>

----------------------------------------------------------------------------
(* startCollection up to its first await.  chrome.storage.local applies     *)
(* the writes of one context in the order it issues them, so a write is     *)
(* applied where it is issued and its await is a separate, later step.      *)

\* A call begins as the resumption of a run: alone, on page 1 of the
\* listing, the storage holding the jobs of the first k >= 1 pages, and the
\* collector holding what the storage holds.
Resumption ==
  /\ appliedPage
  /\ domPage = 1
  /\ \A u \in Tasks : task[u].pc = "idle"
  /\ collectedLinks = stLinks
  /\ \E k \in 1..numPages : Range(stLinks) = JobsUpTo(k)

FreeSlot(t) ==
  /\ task[t].pc = "idle"
  /\ \A u \in Tasks : u < t => task[u].pc # "idle"

\* The outcomes a collaborator call of this kind may have: TRUE is success.
Outcomes(kind) == IF kind \in faults THEN BOOLEAN ELSE {TRUE}

\* chrome.runtime.sendMessage fails in this run.
NotifyFails == "notify" \in faults

\* What chrome.storage.local holds after a write that succeeded or failed.
written(ok, new, old) == IF ok THEN new ELSE old

\* A notifier without its try/catch: a failing sendMessage escapes it.
notifyEscapesUncaught(sendFails) == sendFails

\* updateProgress, notifyComplete, notifyError, notifyStatus: does the
\* failure of sendMessage escape the notifier?  try/catch: never.
notifyEscapes(sendFails) == FALSE

\* A start that leaves the stop flag as it finds it.
shouldStopKept(stop) == stop

\* this.shouldStop = false
shouldStopCleared(stop) == FALSE

startCollectionCall(sendFails) ==
  IF isCollecting \/ notifyEscapes(sendFails)
  THEN UNCHANGED scriptVars
  ELSE \E t \in Tasks, ok \in Outcomes("storage") :
         /\ FreeSlot(t)
         /\ isCollecting' = TRUE
         /\ shouldStop' = shouldStopCleared(shouldStop)
         /\ currentPage' = 0
         /\ stIsCollecting' = written(ok, TRUE, stIsCollecting)
         /\ task' = [task EXCEPT ![t] =
              [IdleTask EXCEPT
                 !.pc = "setFlag", !.resumed = Resumption, !.writeOk = ok,
                 !.staleStop = shouldStop /\ \A u \in Tasks : ~Running(u)]]
         /\ UNCHANGED <<collectedLinks, loadPending, loadResult, totalPages,
                        stLinks, domPage, siteVars, faults, arg, res,
                        appliedPage, peerLinks>>

\* The command reaches the content script; what the popup does about it is
\* left out.
startCollectionWhen(sendFails) ==
  startCollectionCall(sendFails) /\ UNCHANGED popup

startCollection == startCollectionWhen(NotifyFails)

stopCollectionCall(sendFails) ==
  IF notifyEscapes(sendFails)
  THEN UNCHANGED scriptVars
  ELSE
  /\ shouldStop' = TRUE
  /\ isCollecting' = FALSE
  /\ task' = [t \in Tasks |->
                [task[t] EXCEPT !.stopped = @ \/ InLoop(t),
                                !.staleStop = FALSE]]
  /\ UNCHANGED <<currentPage, collectedLinks, loadPending, loadResult,
                 totalPages, stLinks, stIsCollecting, domPage, siteVars,
                 faults, arg, res, appliedPage, peerLinks>>

stopCollectionWhen(sendFails) ==
  stopCollectionCall(sendFails) /\ UNCHANGED popup

stopCollection == stopCollectionWhen(NotifyFails)

----------------------------------------------------------------------------
(* The continuations of a startCollection call, one per await.              *)

Min(a, b) == IF a < b THEN a ELSE b

\* The loop condition off by one: a cycle more than the ceiling allows.
loopConditionOffByOne(page, stop) == page <= maxPages /\ ~stop

\* A loop that trusts the count on the page: it goes on only while fewer
\* links are collected than the count promises.
loopConditionByEstimate(page, stop) ==
  page < maxPages /\ ~stop /\ Len(collectedLinks) < totalEstimate

\* while (this.currentPage < this.maxPages && !this.shouldStop)
loopCondition(page, stop) == page < maxPages /\ ~stop

\* The no-new-links test with its comparison wrong: it never fires.
noNewLinksNever(newLinksCount) == newLinksCount < 0

\* if (newLinksCount === 0) break
noNewLinks(newLinksCount) == newLinksCount = 0

\* An exception reaches the catch block of startCollection: notifyError,
\* then the finally block up to its await.
Abort(t, s, page) ==
  /\ task' = [task EXCEPT ![t] =
       [s EXCEPT !.pc = "clearFlag", !.exit = "error",
                 !.sent = s.sent \cup {"error"}]]
  /\ isCollecting' = FALSE
  /\ \E ok \in Outcomes("storage") :
       stIsCollecting' = written(ok, FALSE, stIsCollecting)
  /\ currentPage' = page

\* Leaving the loop reported as a failure.
FinishAsError(t, s, why, sendFails) == Abort(t, s, currentPage)

\* The loop is left (after the status message that says why):
\* notifyComplete(), then the finally block of startCollection up to its
\* await.
Finish(t, s, why, sendFails) ==
  IF notifyEscapes(sendFails)
  THEN Abort(t, s, currentPage)
  ELSE /\ task' = [task EXCEPT ![t] =
            [s EXCEPT !.pc = "clearFlag", !.exit = why,
                      !.sent = s.sent \cup {"complete"}]]
       /\ isCollecting' = FALSE
       /\ \E ok \in Outcomes("storage") :
            stIsCollecting' = written(ok, FALSE, stIsCollecting)
       /\ currentPage' = currentPage

\* The loop condition, and the start of a cycle up to wait(2000).
LoopHead(t, s, sendFails) ==
  IF loopCondition(currentPage, shouldStop)
  THEN IF notifyEscapes(sendFails)
       THEN Abort(t, s, currentPage + 1)
       ELSE /\ currentPage' = currentPage + 1
            /\ task' = [task EXCEPT ![t] =
                 [s EXCEPT !.pc = "wait",
                           !.cycles = Min(s.cycles + 1, maxPages + 1)]]
            /\ UNCHANGED <<isCollecting, stIsCollecting>>
  ELSE Finish(t, s, IF currentPage < maxPages THEN "stop" ELSE "limit",
              sendFails)

\* After `await chrome.storage.local.set({ isCollecting: true })`, which is
\* outside the try block: if the write failed the call ends there, rejected.
\* Otherwise the page check, then collectAllJobLinks up to its first await;
\* or the catch and finally blocks.
AfterSetFlagWhen(t, sendFails) ==
  /\ task[t].pc = "setFlag"
  /\ IF ~task[t].writeOk
     THEN /\ task' = [task EXCEPT ![t] = IdleTask]
          /\ UNCHANGED <<isCollecting, stIsCollecting, currentPage>>
     ELSE IF ~appliedPage \/ notifyEscapes(sendFails)
     THEN Abort(t, task[t], currentPage)
     ELSE LoopHead(t, task[t], sendFails)
  /\ UNCHANGED <<shouldStop, collectedLinks, loadPending, loadResult, totalPages,
                 stLinks, domPage, siteVars, faults, popup, arg, res, appliedPage,
                 peerLinks>>

AfterSetFlag(t) == AfterSetFlagWhen(t, NotifyFails)

\* extractJobLinksFromPage with its try/catch: [] when an exception was
\* raised inside it.
extractOrCatch(anchors, ok) ==
  IF ok THEN extractJobLinksFromPage(anchors) ELSE <<>>

\* After wait(2000): harvest, merge, and saveProgress up to its await; a
\* failure of the write is caught inside saveProgress.
AfterWaitWhen(t, sendFails) ==
  /\ task[t].pc = "wait"
  /\ \E harvestOk \in Outcomes("harvest"), saveOk \in Outcomes("storage") :
       LET pageLinks == extractOrCatch(PageAnchors(domPage), harvestOk)
       IN IF Len(pageLinks) = 0
          THEN /\ Finish(t, [task[t] EXCEPT !.pageLen = 0,
                                            !.failed = @ \/ ~harvestOk],
                         "empty", sendFails)
               /\ UNCHANGED <<collectedLinks, stLinks>>
          ELSE /\ collectedLinks' = mergeLinks(collectedLinks, pageLinks)
               /\ stLinks' = written(saveOk, collectedLinks', stLinks)
               /\ task' = [task EXCEPT ![t] =
                    [@ EXCEPT !.pc = "save", !.pageLen = Len(pageLinks),
                       !.newLinksCount = countNew(collectedLinks, pageLinks)]]
               /\ UNCHANGED <<isCollecting, stIsCollecting, currentPage>>
  /\ UNCHANGED <<shouldStop, loadPending, loadResult, totalPages, domPage, siteVars,
                 faults, popup, arg, res, appliedPage, peerLinks>>

AfterWait(t) == AfterWaitWhen(t, NotifyFails)

\* After the await in saveProgress: updateProgress, checkForMoreJobs, and
\* loadMoreJobs up to wait(1000).
AfterSaveWhen(t, sendFails) ==
  /\ task[t].pc = "save"
  /\ IF notifyEscapes(sendFails)
     THEN Abort(t, task[t], currentPage) /\ totalPages' = totalPages
     ELSE /\ totalPages' = totalPagesChecked(Dom(domPage))
          /\ IF ~checkForMoreJobs(Dom(domPage))
             THEN Finish(t, task[t], "nomore", sendFails)
             ELSE /\ task' = [task EXCEPT ![t].pc = "advWait"]
                  /\ UNCHANGED <<isCollecting, stIsCollecting, currentPage>>
  /\ UNCHANGED <<shouldStop, collectedLinks, loadPending, loadResult,
                 stLinks, domPage, siteVars, faults, popup, arg, res, appliedPage,
                 peerLinks>>

AfterSave(t) == AfterSaveWhen(t, NotifyFails)

\* The message updateProgress sends.
updateProgress ==
  [ currentPage    |-> currentPage,
    totalPages     |-> IF getPaginationInfo(Dom(domPage)).totalPages # 0
                       THEN getPaginationInfo(Dom(domPage)).totalPages
                       ELSE totalPages,
    collectedLinks |-> Len(collectedLinks) ]

\* After wait(1000) in loadMoreJobs: click what can be clicked and wait
\* 3000, or return false.
AfterAdvWaitWhen(t, sendFails) ==
  /\ task[t].pc = "advWait"
  /\ LET target == loadMoreTarget(Dom(domPage))
     IN IF target = 0
        THEN /\ Finish(t, task[t], "advfail", sendFails)
             /\ domPage' = domPage
        ELSE /\ domPage' = target
             /\ task' = [task EXCEPT ![t].pc = "navWait"]
             /\ UNCHANGED <<isCollecting, stIsCollecting, currentPage>>
  /\ UNCHANGED <<shouldStop, collectedLinks, loadPending, loadResult, totalPages,
                 stLinks, siteVars, faults, popup, arg, res, appliedPage,
                 peerLinks>>

AfterAdvWait(t) == AfterAdvWaitWhen(t, NotifyFails)

\* After wait(3000): loadMoreJobs returns true; the no-new-links check,
\* then the loop condition and the next cycle up to wait(2000).
AfterNavWaitWhen(t, sendFails) ==
  /\ task[t].pc = "navWait"
  /\ IF noNewLinks(task[t].newLinksCount)
     THEN Finish(t, task[t], "nonew", sendFails)
     ELSE LoopHead(t, task[t], sendFails)
  /\ UNCHANGED <<shouldStop, collectedLinks, loadPending, loadResult, totalPages,
                 stLinks, domPage, siteVars, faults, popup, arg, res, appliedPage,
                 peerLinks>>

AfterNavWait(t) == AfterNavWaitWhen(t, NotifyFails)

\* After `await chrome.storage.local.set({ isCollecting: false })`: the call
\* returns and nothing of it is left.
AfterClearFlag(t) ==
  /\ task[t].pc = "clearFlag"
  /\ task' = [task EXCEPT ![t] = IdleTask]
  /\ UNCHANGED <<isCollecting, shouldStop, currentPage, collectedLinks,
                 loadPending, loadResult, totalPages, stLinks, stIsCollecting, domPage,
                 siteVars, faults, popup, arg, res, appliedPage, peerLinks>>

----------------------------------------------------------------------------
(* The page is loaded anew: the old content script and its pending calls    *)
(* are gone, `new AppliedJobsCollector()` runs, and init() issues the get.  *)

Reload ==
  /\ isCollecting' = FALSE
  /\ shouldStop' = FALSE
  /\ currentPage' = 0
  /\ collectedLinks' = <<>>
  /\ loadPending' = TRUE
  /\ loadResult' = stLinks
  /\ totalPages' = 0
  /\ task' = [t \in Tasks |-> IdleTask]
  /\ domPage' = 1
  /\ appliedPage' \in BOOLEAN
  /\ UNCHANGED <<stLinks, stIsCollecting, siteVars, faults, popup, arg, res, peerLinks>>

----------------------------------------------------------------------------
(* The other writers of chrome.storage.local: the background script's       *)
(* onInstalled listener, and the collector of a second tab that shows the   *)
(* same listing, reduced to what it does to the storage: its               *)
(* loadExistingData, and a cycle of its loop (harvest of the page it is     *)
(* on, merge, saveProgress).                                                *)

\* The calls in flight, told that another writer changed the stored links.
Touched ==
  [t \in Tasks |-> IF task[t].pc = "idle" THEN task[t]
                   ELSE [task[t] EXCEPT !.touched = TRUE]]

onInstalled ==
  /\ stLinks' = <<>>
  /\ stIsCollecting' = FALSE
  /\ task' = IF stLinks' = stLinks THEN task ELSE Touched
  /\ UNCHANGED <<isCollecting, shouldStop, currentPage, collectedLinks,
                 loadPending, loadResult, totalPages, domPage, siteVars, faults, popup, arg, res,
                 appliedPage, peerLinks>>

PeerLoad ==
  /\ peerLinks' = stLinks
  /\ UNCHANGED <<isCollecting, shouldStop, currentPage, collectedLinks,
                 loadPending, loadResult, totalPages, task, stLinks, stIsCollecting,
                 domPage, siteVars, faults, popup, arg, res, appliedPage>>

PeerCycle(p) ==
  /\ Len(extractJobLinksFromPage(PageAnchors(p))) > 0
  /\ peerLinks' = mergeLinks(peerLinks, extractJobLinksFromPage(PageAnchors(p)))
  /\ stLinks' = peerLinks'
  /\ task' = IF stLinks' = stLinks THEN task ELSE Touched
  /\ UNCHANGED <<isCollecting, shouldStop, currentPage, collectedLinks,
                 loadPending, loadResult, totalPages, stIsCollecting, domPage,
                 siteVars, faults, popup, arg, res, appliedPage>>

----------------------------------------------------------------------------
(* The popup (class PopupManager).  A click runs the handler up to the      *)
(* answer of the content script, whose message listener has run             *)
(* startCollection or stopCollection up to its first await by then; the     *)
(* write to chrome.storage.local that follows the answer is a later step.   *)
(* pc is the write the popup is about to issue: "starting", "stopping", or  *)
(* "idle" for none; "rejected" when the command could not be dispatched.    *)

\* this.isCollecting after the catch block of the popup's startCollection:
\* the new popup resets it, the old one leaves it set.
isCollectingCaught(build) == build = "old"

PopupStart ==
  /\ popup.pc = "idle"
  /\ ~popup.isCollecting
  /\ ~loadPending
  /\ popup' = [isCollecting |-> TRUE, pc |-> "starting"]
  /\ startCollectionCall(NotifyFails)

\* await chrome.storage.local.set({ isCollecting: true }), or the catch
\* block.
PopupStartStored ==
  /\ popup.pc = "starting"
  /\ \E ok \in Outcomes("storage") :
       /\ stIsCollecting' = written(ok, TRUE, stIsCollecting)
       /\ popup' = [isCollecting |-> ok \/ isCollectingCaught(popupBuild),
                    pc |-> "idle"]
  /\ UNCHANGED <<collectorVars, stLinks, domPage, siteVars, appliedPage,
                 peerLinks, faults, arg, res>>

\* The click whose command cannot be dispatched (no active tab, or
\* sendMessage rejects): the handler up to the await that fails.
PopupStartRejected ==
  /\ popup.pc = "idle"
  /\ ~popup.isCollecting
  /\ popup' = [isCollecting |-> TRUE, pc |-> "rejected"]
  /\ UNCHANGED scriptVars

\* The catch block of the popup's startCollection.
PopupStartCatch ==
  /\ popup.pc = "rejected"
  /\ popup' = [isCollecting |-> isCollectingCaught(popupBuild), pc |-> "idle"]
  /\ UNCHANGED scriptVars

\* The old popup clears this.isCollecting before it dispatches the command.
PopupStop ==
  /\ popup.pc = "idle"
  /\ ~loadPending
  /\ popup' = [isCollecting |-> popup.isCollecting /\ popupBuild = "new",
               pc |-> "stopping"]
  /\ stopCollectionCall(NotifyFails)

\* await chrome.storage.local.set({ isCollecting: false }), and
\* this.isCollecting = false after it.
PopupStopStored ==
  /\ popup.pc = "stopping"
  /\ \E ok \in Outcomes("storage") :
       /\ stIsCollecting' = written(ok, FALSE, stIsCollecting)
       /\ popup' = [isCollecting |-> popup.isCollecting /\ ~ok, pc |-> "idle"]
  /\ UNCHANGED <<collectorVars, stLinks, domPage, siteVars, appliedPage,
                 peerLinks, faults, arg, res>>

\* The popup receives 'collectionComplete' or 'collectionError' of a call
\* that has just sent it.
handleCollectionComplete ==
  /\ popup.isCollecting
  /\ \E t \in Tasks : task[t].pc = "clearFlag"
  /\ popup' = [popup EXCEPT !.isCollecting = FALSE]
  /\ UNCHANGED scriptVars

\* The popup is closed, whatever it was waiting for, and opened again.
PopupReopen ==
  /\ popup' = PopupManager(stIsCollecting)
  /\ UNCHANGED scriptVars

----------------------------------------------------------------------------
(* The functions of the harvest applied on their own: the merge loop of     *)
(* collectAllJobLinks, the clean-and-deduplicate loop of                    *)
(* extractJobLinksFromPage, and extractJobLinksFromPage as a whole.         *)

SeqsUpTo(S, n) == UNION {[1..k -> S] : k \in 0..n}

\* What this.collectedLinks may hold: clean URLs, no one twice.
LinkSets ==
  {links \in SeqsUpTo({cleanUrl(i) : i \in 1..MaxJob}, MaxJob) :
     Cardinality(Range(links)) = Len(links)}

\* Raw hrefs: the path of a job posting, of a job posting without the slash
\* after the number, or of something else; followed by nothing, by a
\* tracking value, or by a query string that quotes the path of a posting.
RawPaths ==
  {<<View, Digits(i), Slash>> : i \in 1..MaxJob}
    \cup {<<View, Digits(1)>>, <<Other>>}

RawQueries == {<<>>, <<Query(1)>>, <<Query(1), View, Digits(2), Slash>>}

RawLocators == {path \o query : path \in RawPaths, query \in RawQueries}

\* The anchors a document may hold.
RawAnchors ==
  {Anchor(h, trk) :
     h \in {Href(TRUE, i, 1) : i \in 1..MaxJob} \cup {Href(FALSE, 0, 0)},
     trk \in BOOLEAN}

\* The pagination controls a document may hold.  The numbered buttons and
\* the current-page mark are looked for inside the pagination container;
\* the next button, if there is one, is the container's when there is a
\* container.
RawDoms ==
  {dom \in [nextBtn : {"none", "enabled", "disabled", "hidden"},
            container : BOOLEAN,
            current : 1..2,
            pageNumbers : SUBSET (1..MaxListing + 1)] :
     ~dom.container => (dom.current = 1 /\ dom.pageNumbers = {})}

PureInputs ==
  {[kind |-> "merge", links |-> links, item |-> cleanUrl(i)] :
     links \in LinkSets, i \in 1..MaxJob}
  \cup {[kind |-> "clean", links |-> links] :
          links \in SeqsUpTo(RawLocators, MaxLen)}
  \cup {[kind |-> "extract", anchors |-> anchors] :
          anchors \in SeqsUpTo(RawAnchors, MaxLen)}
  \cup {[kind |-> "dom", dom |-> dom] : dom \in RawDoms}

\* A collector that is left alone, and the input of a function.
InitPure ==
  /\ Constructed
  /\ numPages = 0
  /\ ~appliedPage
  /\ layout = "overlap"
  /\ totalEstimate = 0
  /\ popupBuild = "new"
  /\ faults = {}
  /\ arg \in PureInputs
  /\ res = NoArg

\* The item is merged into the links: into those of the input, and then
\* once more into the result.
ApplyMerge ==
  /\ arg.kind = "merge"
  /\ \/ /\ res = NoArg
        /\ res' = [kind |-> "merge", times |-> 1,
                   links |-> mergeLinks(arg.links, <<arg.item>>),
                   newLinksCount |-> countNew(arg.links, <<arg.item>>)]
     \/ /\ res # NoArg
        /\ res.times = 1
        /\ res' = [kind |-> "merge", times |-> 2,
                   links |-> mergeLinks(res.links, <<arg.item>>),
                   newLinksCount |-> countNew(res.links, <<arg.item>>)]
  /\ UNCHANGED <<collectorVars, stLinks, stIsCollecting, domPage, siteVars,
                 faults, popup, appliedPage, peerLinks, arg>>

ApplyCleanLinks ==
  /\ arg.kind = "clean"
  /\ res = NoArg
  /\ res' = [kind |-> "clean", links |-> cleanLinks(arg.links, {}, <<>>)]
  /\ UNCHANGED <<collectorVars, stLinks, stIsCollecting, domPage, siteVars,
                 faults, popup, appliedPage, peerLinks, arg>>

ApplyExtract ==
  /\ arg.kind = "extract"
  /\ res = NoArg
  /\ res' = [kind |-> "extract",
             links |-> extractJobLinksFromPage(arg.anchors)]
  /\ UNCHANGED <<collectorVars, stLinks, stIsCollecting, domPage, siteVars,
                 faults, popup, appliedPage, peerLinks, arg>>

\* checkForMoreJobs and loadMoreJobs on the same document.
ApplyCheckForMore ==
  /\ arg.kind = "dom"
  /\ res = NoArg
  /\ res' = [kind |-> "dom",
             hasMore |-> checkForMoreJobs(arg.dom),
             advanced |-> loadMoreTarget(arg.dom) # 0]
  /\ UNCHANGED <<collectorVars, stLinks, stIsCollecting, domPage, siteVars,
                 faults, popup, appliedPage, peerLinks, arg>>

----------------------------------------------------------------------------
(* Specifications.  In all of them but SpecRace the popup's commands reach  *)
(* the content script after the get issued by its constructor has           *)
(* completed.                                                               *)

StepWhen(t, sendFails) ==
  \/ AfterSetFlagWhen(t, sendFails)
  \/ AfterWaitWhen(t, sendFails)
  \/ AfterSaveWhen(t, sendFails)
  \/ AfterAdvWaitWhen(t, sendFails)
  \/ AfterNavWaitWhen(t, sendFails)
  \/ AfterClearFlag(t)

Step(t) ==
  \/ AfterSetFlag(t)
  \/ AfterWait(t)
  \/ AfterSave(t)
  \/ AfterAdvWait(t)
  \/ AfterNavWait(t)
  \/ AfterClearFlag(t)

\* One content script under every interleaving of start and stop commands.
Next ==
  \/ LoadComplete
  \/ ~loadPending /\ startCollection
  \/ ~loadPending /\ stopCollection
  \/ \E t \in Tasks : Step(t)

Spec == Init /\ [][Next]_vars

\* Runs that are cut short by the page being loaded anew, and never stopped.
NextResume ==
  \/ LoadComplete
  \/ ~loadPending /\ startCollection
  \/ Reload
  \/ \E t \in Tasks : Step(t)

SpecResume == Init /\ [][NextResume]_vars

\* One content script and the other writers of the storage; no stop.
NextShared ==
  \/ LoadComplete
  \/ ~loadPending /\ startCollection
  \/ \E t \in Tasks : Step(t)
  \/ onInstalled
  \/ PeerLoad
  \/ \E p \in 1..MaxListing : PeerCycle(p)

SpecShared == Init /\ [][NextShared]_vars

\* One content script, never stopped, whose collaborators may fail.
NextFaults ==
  \/ LoadComplete
  \/ ~loadPending /\ startCollection
  \/ \E t \in Tasks : Step(t)

SpecFaults == InitFaults /\ [][NextFaults]_vars

\* The same runs, one after the other and never stopped, no collaborator
\* failing.
SpecRuns == Init /\ [][NextFaults]_vars

\* The same, every wait of a call returning and every storage call it
\* awaits completing (with success or failure) in the end.
SpecLive == SpecFaults /\ \A t \in Tasks : WF_vars(Step(t))

\* One content script and the popup that commands it.
NextPopup ==
  \/ LoadComplete
  \/ PopupStart
  \/ PopupStartStored
  \/ PopupStartRejected
  \/ PopupStartCatch
  \/ PopupStop
  \/ PopupStopStored
  \/ handleCollectionComplete
  \/ PopupReopen
  \/ \E t \in Tasks : Step(t)

SpecPopup == InitPopup /\ [][NextPopup]_vars

\* A start command may reach the content script before the get issued by
\* its constructor has completed: nothing in the code orders the two.  No
\* stop.
NextRace ==
  \/ LoadComplete
  \/ startCollection
  \/ \E t \in Tasks : Step(t)

SpecRace == Init /\ [][NextRace]_vars

\* Runs over either layout of the listing that are started when no link
\* has been collected yet; the page may be loaded anew, and nobody stops.
NextFresh ==
  \/ LoadComplete
  \/ ~loadPending /\ collectedLinks = <<>> /\ startCollection
  \/ Reload
  \/ \E t \in Tasks : Step(t)

SpecLayouts == InitLayouts /\ [][NextFresh]_vars

\* The functions of the harvest, each applied to an input of its own.
NextPure ==
  \/ ApplyMerge
  \/ ApplyCleanLinks
  \/ ApplyExtract
  \/ ApplyCheckForMore

SpecPure == InitPure /\ [][NextPure]_vars

----------------------------------------------------------------------------
(* Claims.                                                                  *)

\* The harvests a call has executed: every cycle it began, but for the one
\* whose settle wait has not returned yet.
Harvests(t) ==
  IF task[t].pc = "wait" THEN task[t].cycles - 1 ELSE task[t].cycles

LoopsInFlight == {t \in Tasks : InLoop(t)}

\* C1: ceiling enforcement: under any sequence of start and stop commands,
\* no startCollection call executes more than maxPages harvest cycles.
C1_CeilingEnforced ==
  \A t \in Tasks : Harvests(t) <= maxPages

\* C2: at most one collectAllJobLinks loop is in flight at any time.
C2_OneLoopInFlight ==
  Cardinality(LoopsInFlight) <= 1

\* C3: cooperative stop: once stopCollection was invoked while a call was in
\* a cycle, that call begins no further cycle, whatever commands follow.
C3_NoCycleAfterStop ==
  [][\A t \in Tasks :
       (task[t].stopped /\ task[t].pc # "wait") => task'[t].pc # "wait"]_vars

\* C4: a call whose loop was left because shouldStop was set sends no
\* 'collectionComplete'.
C4_NoCompletionAfterStop ==
  \A t \in Tasks : task[t].exit = "stop" => "complete" \notin task[t].sent

\* C5: while a loop is in flight, with or without a stop requested, a
\* further startCollection changes neither currentPage, shouldStop,
\* collectedLinks nor the storage, and starts no call.
C5_StartIsNoOpWhileRunning ==
  [][(LoopsInFlight # {} /\ startCollection)
       => UNCHANGED <<currentPage, shouldStop, collectedLinks, stLinks,
                      stIsCollecting, task>>]_vars

\* C6: resume correctness: the stored links being a, b since the call began,
\* a first cycle that harvests b, c leaves a, b, c in the storage.
C6_ResumeCorrectness ==
  [][\A t \in Tasks :
       LET pageLinks == extractJobLinksFromPage(PageAnchors(domPage))
       IN (/\ AfterWait(t)
           /\ task[t].cycles = 1
           /\ ~task[t].touched
           /\ Len(stLinks) = 2
           /\ Len(pageLinks) = 2
           /\ pageLinks[1] = stLinks[2]
           /\ pageLinks[2] \notin Range(stLinks))
          => stLinks' = Append(stLinks, pageLinks[2])]_vars

\* C7: at the instant a session enters Running, collectedLinks contains
\* every link the storage holds.
C7_StartHoldsSnapshot ==
  [][(~isCollecting /\ isCollecting')
       => Range(stLinks) \subseteq Range(collectedLinks')]_vars

\* C8: but for the reset at installation, every write of the stored links
\* keeps all the links stored before.
C8_StoredLinksGrow ==
  [][onInstalled \/ Range(stLinks) \subseteq Range(stLinks')]_vars

\* C9: a run that resumes, from page 1, a listing of at most maxPages pages
\* whose first pages are stored has stored the jobs of all its pages when it
\* ends.
C9_ResumedRunCollectsAll ==
  \A t \in Tasks :
    (task[t].pc = "clearFlag" /\ task[t].resumed /\ numPages <= maxPages)
      => JobsUpTo(numPages) \subseteq Range(stLinks)

\* C10: a call whose last cycle harvested links, none of them new, is not in
\* a later cycle, and once it has left the loop it has sent
\* 'collectionComplete' and no 'collectionError'.
C10_NoProgressTerminates ==
  \A t \in Tasks :
    (task[t].pageLen > 0 /\ task[t].newLinksCount = 0)
      => /\ task[t].pc \in {"save", "advWait", "navWait", "clearFlag"}
         /\ task[t].pc = "clearFlag" => task[t].sent = {"complete"}

\* A call that clicked its way to the next page after a cycle without new
\* links, and left the loop for that reason.
C10_Witness ==
  \E t \in Tasks :
    /\ task[t].pc = "clearFlag"
    /\ task[t].exit = "nonew"
    /\ task[t].pageLen > 0
    /\ task[t].newLinksCount = 0
    /\ task[t].cycles >= 1
    /\ currentPage < maxPages
    /\ task[t].sent = {"complete"}

\* C11: a startCollection on a page that is not the Applied Jobs page sends
\* an error notification, runs no cycle, and neither this.isCollecting nor
\* the stored isCollecting flag is ever true.
C11_OffPageStaysIdle ==
  ~appliedPage =>
    /\ ~isCollecting
    /\ ~stIsCollecting
    /\ \A t \in Tasks :
         /\ task[t].cycles = 0
         /\ task[t].pc = "clearFlag" => task[t].sent = {"error"}

\* C12: a cycle whose harvest raises an exception ends the call with a
\* 'collectionError' and without a 'collectionComplete', the stored links
\* being left as they were.
C12_HarvestFailureFails ==
  [][\A t \in Tasks :
       (task[t].pc = "wait" /\ ~task[t].failed /\ task'[t].failed)
         => (task'[t].sent = {"error"} /\ stLinks' = stLinks)]_vars

\* C13: whatever collaborator call failed, a startCollection call that ends
\* has sent a terminal notification and leaves this.isCollecting false, so
\* that a later start is accepted.
C13_FailuresEndTheSession ==
  [][\A t \in Tasks :
       (task[t].pc # "idle" /\ task'[t].pc = "idle")
         => (~isCollecting' /\ task[t].sent # {})]_vars

\* C14: termination: every wait returning, no call runs more than maxPages
\* cycles, every call reaches its end having sent a terminal notification,
\* and this.isCollecting, once true, becomes false again.
C14_Termination ==
  /\ [](\A t \in Tasks : Harvests(t) <= maxPages)
  /\ \A t \in Tasks :
       (task[t].pc = "setFlag")
         ~> (task[t].pc = "clearFlag" /\ task[t].sent # {})
  /\ isCollecting ~> ~isCollecting

\* C15: the scenario of the ceiling, for the ceiling of the model: a call
\* (begun with no links collected, as all calls of SpecLayouts are) on a
\* listing that shows one new job per page and always has a next page ends
\* having run exactly maxPages cycles, with 'collectionComplete' sent (and
\* no error) and maxPages links collected.
C15_CeilingScenario ==
  [][\A t \in Tasks :
       (/\ task[t].pc # "clearFlag"
        /\ task'[t].pc = "clearFlag"
        /\ appliedPage
        /\ layout = "single"
        /\ numPages > maxPages)
         => /\ task'[t].cycles = maxPages
            /\ task'[t].sent = {"complete"}
            /\ Len(collectedLinks') = maxPages]_vars

\* A call of that scenario that left the loop at the ceiling, its last cycle
\* having found one new link and a next page.
C15_Witness ==
  \E t \in Tasks :
    /\ task[t].pc = "clearFlag"
    /\ \A u \in Tasks \ {t} : task[u].pc = "idle"
    /\ appliedPage
    /\ layout = "single"
    /\ numPages > maxPages
    /\ task[t].exit = "limit"
    /\ task[t].newLinksCount = 1
    /\ task[t].pageLen = 1
    /\ domPage = maxPages + 1

\* C16: idempotent merge: merging an item a second time leaves the links as
\* the first merge left them, order included, and counts nothing new; and
\* merging an item that is already there changes nothing and counts nothing
\* new.
C16_MergeIdempotent ==
  (arg.kind = "merge" /\ res # NoArg) =>
    /\ res.times = 2 =>
         /\ res.links = mergeLinks(arg.links, <<arg.item>>)
         /\ res.newLinksCount = 0
    /\ arg.item \in Range(arg.links) =>
         /\ res.links = arg.links
         /\ res.newLinksCount = 0

\* An item that was not there, merged twice into links that were not empty.
C16_Witness ==
  /\ arg.kind = "merge"
  /\ res # NoArg
  /\ res.times = 2
  /\ arg.item \notin Range(arg.links)
  /\ Len(arg.links) >= 1
  /\ Len(res.links) = Len(arg.links) + 1

\* The href up to its query string.
pathOf(link) ==
  LET queries == {i \in 1..Len(link) : link[i].tok = "?trk="}
  IN IF queries = {} THEN link
     ELSE SubSeq(link, 1, (CHOOSE i \in queries :
                             \A j \in queries : i <= j) - 1)

\* The path is that of a job posting, with or without the slash at its end.
namesJob(path) ==
  /\ Len(path) \in {2, 3}
  /\ path[1] = View
  /\ path[2].tok = "digits"
  /\ Len(path) = 3 => path[3] = Slash

\* C17: canonicalization stability: the result for one href of a job posting
\* is the result for any href of the same path, whatever its query string.
C17_TrackingIgnored ==
  (/\ arg.kind = "clean"
   /\ res # NoArg
   /\ Len(arg.links) = 1
   /\ namesJob(pathOf(arg.links[1])))
    => \A r2 \in RawLocators :
         pathOf(r2) = pathOf(arg.links[1])
           => cleanLinks(<<r2>>, {}, <<>>) = res.links

\* The place of the first href that has the job id of a clean URL.
firstOccurrence(links, url) ==
  CHOOSE i \in 1..Len(links) :
    /\ cleanUrl(jobIdOf(links[i])) = url
    /\ \A j \in 1..Len(links) : cleanUrl(jobIdOf(links[j])) = url => i <= j

\* C18: the result of the clean-and-deduplicate loop holds the clean URL of
\* every job id the pattern finds in the hrefs and nothing else, each once,
\* in the order in which the ids first occur.
C18_ExtractorResult ==
  (arg.kind = "clean" /\ res # NoArg) =>
    /\ Range(res.links) =
         {cleanUrl(jobIdOf(arg.links[i])) :
            i \in {j \in 1..Len(arg.links) : jobIdOf(arg.links[j]) # 0}}
    /\ Cardinality(Range(res.links)) = Len(res.links)
    /\ \A i, j \in 1..Len(res.links) :
         i < j => firstOccurrence(arg.links, res.links[i])
                    < firstOccurrence(arg.links, res.links[j])

\* Three hrefs: a job, something that does not match, and the first job
\* again with another query string; one link results.
C18_Witness ==
  /\ arg.kind = "clean"
  /\ res # NoArg
  /\ Len(arg.links) = 3
  /\ jobIdOf(arg.links[1]) # 0
  /\ jobIdOf(arg.links[2]) = 0
  /\ jobIdOf(arg.links[3]) = jobIdOf(arg.links[1])
  /\ arg.links[3] # arg.links[1]
  /\ res.links = <<cleanUrl(jobIdOf(arg.links[1]))>>

\* C19: the fallback chain: the result is that of the first selector that
\* finds hrefs, alone: of the second when the first finds none, and of the
\* first when it finds some, whatever the others would find.
C19_FirstStrategyAlone ==
  (arg.kind = "extract" /\ res # NoArg) =>
    /\ (selectorHrefs(arg.anchors, 1) = <<>>
          /\ selectorHrefs(arg.anchors, 2) # <<>>)
         => res.links = cleanLinks(selectorHrefs(arg.anchors, 2), {}, <<>>)
    /\ selectorHrefs(arg.anchors, 1) # <<>>
         => res.links = cleanLinks(selectorHrefs(arg.anchors, 1), {}, <<>>)

\* A document in which the first selector finds nothing, the second finds
\* two postings, and the third an element that is no posting.
C19_Witness ==
  /\ arg.kind = "extract"
  /\ res # NoArg
  /\ selectorHrefs(arg.anchors, 1) = <<>>
  /\ Len(selectorHrefs(arg.anchors, 2)) = 2
  /\ \E i \in 1..Len(arg.anchors) : arg.anchors[i].trk
  /\ Len(res.links) = 2

C22_CycleProtocol ==
  [][\A t \in Tasks :
       /\ (task[t].pc = "wait" /\ task'[t].pc # "wait")
            => task'[t].pc = "save"
       /\ (task[t].pc = "save" /\ task'[t].pc # "save")
            => updateProgress.collectedLinks = Len(stLinks)]_vars

\* C23: in a cycle in which the page index has reached maxPages, or a stop
\* was requested, or no new link was merged, nothing is clicked: the
\* document keeps showing the page it showed.
C23_NoAdvanceInFinalCycle ==
  [][\A t \in Tasks :
       (task[t].pc = "advWait" /\ task'[t].pc # "advWait"
          /\ domPage' # domPage)
         => ~(\/ currentPage >= maxPages
              \/ shouldStop
              \/ noNewLinks(task[t].newLinksCount))]_vars

\* C25: when loadMoreJobs finds nothing to click the call leaves the loop at
\* once: nothing is clicked or harvested any more, 'collectionComplete' is
\* sent and no error, and the stored snapshot holds every link collected.
C25_AdvanceFailureCompletes ==
  [][\A t \in Tasks :
       (/\ task[t].pc = "advWait"
        /\ task'[t].pc # "advWait"
        /\ loadMoreTarget(Dom(domPage)) = 0)
         => /\ task'[t].pc = "clearFlag"
            /\ task'[t].sent = {"complete"}
            /\ domPage' = domPage
            /\ collectedLinks' = collectedLinks
            /\ stLinks' = stLinks
            /\ Range(collectedLinks') \subseteq Range(stLinks')]_vars

\* A call that left the loop because nothing could be clicked, with links
\* collected and stored.
C25_Witness ==
  \E t \in Tasks :
    /\ task[t].pc = "clearFlag"
    /\ task[t].exit = "advfail"
    /\ task[t].sent = {"complete"}
    /\ Len(collectedLinks) > 0
    /\ stLinks = collectedLinks

\* `https://www.linkedin.com/jobs/view/<digits>/` and nothing else, the
\* digits being there.
isCanonical(link) ==
  /\ Len(link) = 3
  /\ link[1] = View
  /\ link[2].tok = "digits"
  /\ link[2].n > 0
  /\ link[3] = Slash

\* C27: every element of this.collectedLinks is the clean URL of a job id
\* that is not empty, and no two elements have the same job id.
C27_ResultSetCanonical ==
  /\ \A i \in 1..Len(collectedLinks) : isCanonical(collectedLinks[i])
  /\ \A i, j \in 1..Len(collectedLinks) :
       jobIdOf(collectedLinks[i]) = jobIdOf(collectedLinks[j]) => i = j

\* Two harvests that shared a job have been merged.
C27_Witness ==
  /\ Len(collectedLinks) >= 3
  /\ \E t \in Tasks : task[t].cycles >= 2 /\ task[t].newLinksCount = 1

\* C24: checkForMoreJobs answers true exactly when there is a next button
\* that is visible and enabled, or a numbered button above the current
\* page.
C24_HasNextDecision ==
  res.kind = "dom" =>
    (res.hasMore <=>
       \/ arg.dom.nextBtn = "enabled"
       \/ \E n \in arg.dom.pageNumbers : n > arg.dom.current)

\* C30: on a document on which checkForMoreJobs answers true, loadMoreJobs
\* finds something to click and returns true.
C30_HasNextImpliesAdvance ==
  res.kind = "dom" => (res.hasMore => res.advanced)

\* C21: when a cycle has finished, that is when the loop condition is
\* evaluated after it or the loop is left, the stored collectedLinks are the
\* links the collector holds.
C21_SnapshotFollowsCycles ==
  [][\A t \in Tasks :
       (/\ InLoop(t)
        /\ \/ task'[t].pc = "clearFlag"
           \/ task[t].pc = "navWait" /\ task'[t].pc = "wait")
         => stLinks' = collectedLinks']_vars

\* C28: the completion of loadExistingData takes no link away from
\* this.collectedLinks.
C28_LoadKeepsCollected ==
  [][(loadPending /\ ~loadPending')
       => Range(collectedLinks) \subseteq Range(collectedLinks')]_vars

\* The cycles a call runs that begins with no links collected, on page 1 of
\* the listing: one on a listing without jobs, and otherwise one per page up
\* to the ceiling.
cyclesOfListing == IF numPages = 0 THEN 1 ELSE Min(maxPages, numPages)

\* C26: the count getTotalJobsCount reads and this.totalPages decide
\* nothing: whatever they are, a call (begun with no links collected, as
\* all calls of SpecLayouts are) ends after the cycles the pages and their
\* next buttons allow, with the jobs of those pages collected and
\* 'collectionComplete' sent.
C26_AdvisoryTotalsIgnored ==
  [][\A t \in Tasks :
       (/\ task[t].pc # "clearFlag"
        /\ task'[t].pc = "clearFlag"
        /\ appliedPage)
         => /\ task'[t].cycles = cyclesOfListing
            /\ Range(collectedLinks') = JobsUpTo(Min(cyclesOfListing, numPages))
            /\ task'[t].sent = {"complete"}]_vars

\* The count on the page promised more jobs than the listing has, and the
\* call ended where the pagination ended, this.totalPages being set.
C26_Witness ==
  /\ totalEstimate = OverEstimate
  /\ totalPages = numPages
  /\ \E t \in Tasks :
       /\ task[t].pc = "clearFlag"
       /\ task[t].exit = "nomore"
       /\ task[t].sent = {"complete"}
       /\ Range(collectedLinks) = JobsUpTo(numPages)

\* C29: when no startCollection call of the content script is in flight
\* any more and the popup has no write left to issue, the stored
\* isCollecting flag is false.
C29_FlagConvergesToFalse ==
  (/\ \A t \in Tasks : task[t].pc = "idle"
   /\ popup.pc = "idle")
    => ~stIsCollecting

\* C32: while a collectAllJobLinks loop is in flight this.isCollecting is
\* true.
C32_StatusReflectsLoop ==
  (\E t \in Tasks : InLoop(t)) => isCollecting

\* C34: this.currentPage stays within 0..maxPages, and the currentPage of
\* every 'updateProgress' message is within 1..maxPages.
C34_PageIndexBounds ==
  /\ [](currentPage \in 0..maxPages)
  /\ [][\A t \in Tasks :
          (task[t].pc = "save" /\ task'[t].pc # "save")
            => updateProgress.currentPage \in 1..maxPages]_vars

\* C31: a stop that arrived while no call was running does not cancel the
\* next start: on the Applied Jobs page that start clears this.shouldStop,
\* and unless a new stop arrives the call begins a cycle and does not end
\* before its first harvest.
C31_StaleStopNotCarriedOver ==
  \A t \in Tasks :
    (task[t].staleStop /\ appliedPage) =>
      /\ task[t].pc = "setFlag" => ~shouldStop
      /\ task[t].pc # "setFlag" => task[t].cycles >= 1
      /\ task[t].pc = "clearFlag" => Harvests(t) >= 1

\* A call that began under a stale stop flag has harvested a page and is
\* storing what it found.
C31_Witness ==
  \E t \in Tasks :
    /\ task[t].staleStop
    /\ appliedPage
    /\ task[t].pc = "save"
    /\ task[t].cycles = 1
    /\ task[t].pageLen > 0
    /\ ~shouldStop

\* C33: a startCollection call that passed the guard sends a terminal
\* notification only when it has sent none yet, and when it returns it has
\* sent exactly one: 'collectionComplete' or 'collectionError'.
C33_OneTerminalNotification ==
  [][\A t \in Tasks :
       /\ (task[t].pc # "idle" /\ task'[t].pc = "idle")
            => Cardinality(task[t].sent) = 1
       /\ (task'[t].pc # "idle" /\ task'[t].sent # task[t].sent)
            => (task[t].sent = {} /\ Cardinality(task'[t].sent) = 1)]_vars

\* C35: when the start command cannot be dispatched, the popup, the new
\* one and the old one, ends with this.isCollecting false and its start
\* button answering again, and it has not written the stored isCollecting
\* flag.
C35_RejectedStartResetsPopup ==
  [][PopupStartCatch
       => /\ ~popup'.isCollecting
          /\ popup'.pc = "idle"
          /\ stIsCollecting' = stIsCollecting]_vars

====
